---- MODULE Spec2Model ----
(***************************************************************************)
(* State-machine model of app.py (AI Study Buddy): the account store       *)
(* (users.json), the login / signup / OTP password-reset handlers of the   *)
(* login page, and the chat-session handlers of the AI Chat page with the  *)
(* history store (chat_history.json).                                      *)
(*                                                                         *)
(* Every Python str is a TLA+ string.  Python's None (and a session_state   *)
(* key that was never assigned) is the sentinel None, a value no text      *)
(* input can produce.  One Streamlit script run that handles a click or a  *)
(* submit is one action; the variable event records what that run was      *)
(* given and what it showed (st.error / st.success / st.warning) and       *)
(* whether it handed a message to the mail transport.                      *)
(***************************************************************************)
EXTENDS Integers, Sequences, FiniteSets, TLC

VARIABLES
    EMAIL_ENABLED,          \* app.py:21-26, fixed at start-up
    users,                  \* contents of users.json: username -> account
    authenticated,          \* st.session_state.authenticated
    username,               \* st.session_state.username
    reset_stage,            \* st.session_state.reset_stage
    generated_otp,          \* st.session_state.generated_otp
    reset_email,            \* st.session_state.reset_email
    reset_username,         \* st.session_state.reset_username
    messages,               \* st.session_state.messages
    current_session_name,   \* st.session_state.current_session_name
    history,                \* contents of chat_history.json: name -> messages
    inbox,                  \* mail transport: the last message it delivered
    event                   \* the last script run: its inputs and its feedback

vars == << EMAIL_ENABLED, users, authenticated, username, reset_stage,
           generated_otp, reset_email, reset_username, messages,
           current_session_name, history, inbox, event >>

authVars  == << users, authenticated, username >>
resetVars == << reset_stage, generated_otp, reset_email, reset_username >>
chatVars  == << messages, current_session_name, history >>

None == "<None>"

(***************************************************************************)
(* Bounds of the model.                                                    *)
(***************************************************************************)
MaxTurns == 2           \* question/answer turns a transcript may grow to

(***************************************************************************)
(* Input domains: what the text inputs and the collaborators may supply.   *)
(***************************************************************************)
Usernames  == {"", "ann", "bob"}
Passwords  == {"", "pw1", "pw2"}
Emails     == {"", "a@x", "b@x"}

\* random.randint(100000, 999999): both ends and one inner value.
OTP_MIN == 100000
OTP_MAX == 999999
OtpDraws   == {OTP_MIN, OTP_MIN + 23456, OTP_MAX}
\* What the user may type into "Enter 6-Digit OTP": the codes that can be
\* drawn, a code with a leading zero, and nothing.
OtpInputs  == {"100000", "123456", "999999", "0100000", ""}

\* Prompts for st.chat_input (never empty: the walrus test at 429 is falsy
\* for ""). The first two agree on their first 20 characters.
Prompts    == {"What is gravity? Explain simply", "What is gravity? Explain deeply", "Hi"}
\* Texts the generation provider may return.
Replies    == {"It is a force."}

\* A failure the mail transport may report: str(e) at app.py:84.
SmtpErrors == {"Connection refused"}

(***************************************************************************)
(* Feedback texts, as the source writes them (without the emoji that two   *)
(* of them start with).                                                    *)
(***************************************************************************)
MSG_LOGGED_IN      == "Logged in successfully!"
MSG_INVALID_PW     == "Invalid password"
MSG_USER_NOT_FOUND == "User not found"
MSG_USERNAME_TAKEN == "Username already taken!"
MSG_EMAIL_TAKEN    == "Email already registered!"
MSG_CREATED        == "Account created! Please log in."
MSG_FILL_FIELDS    == "Please fill in all fields."
MSG_DISABLED       == "Email features are disabled. Configure secrets.toml."
MSG_EMAIL_UNKNOWN  == "Email not found."
MSG_SEND_ERROR     == "Error sending email: "
MSG_INVALID_OTP    == "Invalid OTP."
MSG_PW_UPDATED     == "Password Updated! Please Login."
MSG_NOT_CONFIGURED == "Email secrets not configured."
FALLBACK           == "System busy or error. Please try again."
NEW_CHAT           == "New Chat"

\* The record of one script run: the handler, its inputs, the feedback it
\* showed ("" when none) and what it did with the mail transport
\* ("none": no connection opened, "sent", "failed").
Ev(op, args, out, mail) == [op |-> op, args |-> args, out |-> out, mail |-> mail]

(***************************************************************************)
(* Accounts.  users.json holds {"password": .., "email": ..} objects and,  *)
(* for legacy accounts, bare password strings.  isdict tells them apart    *)
(* (isinstance(user_data, dict)); a legacy account has no email.           *)
(***************************************************************************)
Account(p, e) == [isdict |-> TRUE,  password |-> p, email |-> e]
Legacy(p)     == [isdict |-> FALSE, value |-> p]

\* app.py:142: user_data["password"] if isinstance(user_data, dict) else user_data
stored_password(user_data) == IF user_data.isdict THEN user_data.password ELSE user_data.value

\* Faulty variant of email_registered: the email loop never matches.
email_registered_Never(us, e) == FALSE

\* app.py:161-162 and 245-246: some dict account carries this email.
email_registered(us, e) == \E u \in DOMAIN us : us[u].isdict /\ us[u].email = e

\* app.py:244-248: the first account, in file order, with this email.
find_user(us, e) == CHOOSE u \in DOMAIN us : us[u].isdict /\ us[u].email = e

\* A function with one key set (dict item assignment) or removed (del).
Put(f, k, v) == [x \in DOMAIN f \cup {k} |-> IF x = k THEN v ELSE f[x]]
Del(f, k)    == [x \in DOMAIN f \ {k} |-> f[x]]

(***************************************************************************)
(* str(n) of a natural number: its decimal digits.                         *)
(***************************************************************************)
Digit == <<"0", "1", "2", "3", "4", "5", "6", "7", "8", "9">>

RECURSIVE str(_)
str(n) == IF n < 10 THEN Digit[n + 1] ELSE str(n \div 10) \o Digit[(n % 10) + 1]

(***************************************************************************)
(* send_otp_email, app.py:67-84.  outcome is what the SMTP exchange does:  *)
(* "ok" or the text of the exception.  The result is True (ok) or a text.  *)
(***************************************************************************)
send_otp_email(enabled, outcome) ==
    IF ~enabled THEN [ok |-> FALSE, text |-> MSG_NOT_CONFIGURED, mail |-> "none"]
    ELSE IF outcome = "ok" THEN [ok |-> TRUE, text |-> "", mail |-> "sent"]
    ELSE [ok |-> FALSE, text |-> outcome, mail |-> "failed"]

NoMail == [to |-> None, otp |-> None]

(***************************************************************************)
(* Initial state: app.py:18-32 (EMAIL_ENABLED), 129-134 and 321-323        *)
(* (session state).  users.json is absent, or is the file of an earlier    *)
(* version of the program and holds one legacy account; chat_history.json  *)
(* is absent.                                                              *)
(***************************************************************************)
InitialStores == { << >>, [u \in {"bob"} |-> Legacy("pw1")] }

Init ==
    /\ EMAIL_ENABLED \in BOOLEAN
    /\ users \in InitialStores
    /\ authenticated = FALSE
    /\ username = None
    /\ reset_stage = 0
    /\ generated_otp = None
    /\ reset_email = None
    /\ reset_username = None
    /\ messages = << >>
    /\ current_session_name = NEW_CHAT
    /\ history = << >>
    /\ inbox = NoMail
    /\ event = Ev("start", << >>, "", "none")

(***************************************************************************)
(* The login page (app.py:174): shown while not authenticated.             *)
(***************************************************************************)
\* Faulty variant of login_user_output: the password is not compared.
login_user_output_AnyPassword(us, u, p) ==
    IF u \in DOMAIN us THEN MSG_LOGGED_IN ELSE MSG_USER_NOT_FOUND

\* app.py:138-152: what login_user reports.
login_user_output(us, u, p) ==
    IF u \in DOMAIN us
    THEN IF stored_password(us[u]) = p THEN MSG_LOGGED_IN ELSE MSG_INVALID_PW
    ELSE MSG_USER_NOT_FOUND

\* app.py:137-152, called from the "Log In" button (224).
login_user(u, p) ==
    /\ ~authenticated
    /\ LET out == login_user_output(users, u, p) IN
        /\ event' = Ev("login", <<u, p>>, out, "none")
        /\ IF out = MSG_LOGGED_IN
           THEN authenticated' = TRUE /\ username' = u
           ELSE UNCHANGED <<authenticated, username>>
    /\ UNCHANGED <<EMAIL_ENABLED, users, resetVars, chatVars, inbox>>

\* app.py:155-169: what signup_user reports.
signup_user_output(us, u, e) ==
    IF u \in DOMAIN us THEN MSG_USERNAME_TAKEN
    ELSE IF email_registered(us, e) THEN MSG_EMAIL_TAKEN
    ELSE MSG_CREATED

\* Faulty variant of signup_user_store: the account is written before the
\* tests are made.
signup_user_store_Always(us, u, p, e) == Put(us, u, Account(p, e))

\* app.py:155-167: the mapping signup_user leaves in users.json.
signup_user_store(us, u, p, e) ==
    IF signup_user_output(us, u, e) = MSG_CREATED THEN Put(us, u, Account(p, e)) ELSE us

\* app.py:230-233 with signup_user (154-169): the "Create Account" button.
CreateAccount(u, p, e) ==
    /\ ~authenticated
    /\ IF u # "" /\ e # "" /\ p # ""
       THEN /\ users' = signup_user_store(users, u, p, e)
            /\ event' = Ev("signup", <<u, p, e>>, signup_user_output(users, u, e), "none")
       ELSE /\ users' = users
            /\ event' = Ev("signup", <<u, p, e>>, MSG_FILL_FIELDS, "none")
    /\ UNCHANGED <<EMAIL_ENABLED, authenticated, username, resetVars, chatVars, inbox>>

(***************************************************************************)
(* Forgot Password tab, app.py:235-289.                                    *)
(***************************************************************************)
\* Faulty variant of ResetAvailable: the tab is not guarded.
ResetAvailable_Unguarded == TRUE

\* app.py:236-238: the whole tab is a warning unless mail is configured.
ResetAvailable == EMAIL_ENABLED

\* app.py:236-237: the tab rendered without mail credentials.
tab_forgot_disabled ==
    /\ ~authenticated
    /\ ~ResetAvailable
    /\ event' = Ev("forgot", << >>, MSG_DISABLED, "none")
    /\ UNCHANGED <<EMAIL_ENABLED, authVars, resetVars, chatVars, inbox>>

\* app.py:244-248: found_user, None when no account has the email.
found_user(us, e) == IF email_registered(us, e) THEN find_user(us, e) ELSE None

\* Python truthiness of found_user (app.py:250): None and "" are falsy.
truthy(x) == x # None /\ x # ""

\* Faulty variant of request_advances: the transport's result is ignored.
request_advances_Always(found, result) == truthy(found)

\* app.py:250-253: the request moves on when an account was found and the
\* transport returned True.
request_advances(found, result) == truthy(found) /\ result.ok

\* app.py:240-262: "Send OTP Code" at stage 0.  draw is random.randint's
\* value, outcome the SMTP exchange's.
SendOTPCode(email_in, draw, outcome) ==
    /\ ~authenticated
    /\ ResetAvailable
    /\ reset_stage = 0
    /\ LET found  == found_user(users, email_in)
           otp    == str(draw)
           result == send_otp_email(EMAIL_ENABLED, outcome)
       IN  IF truthy(found)
           THEN \* 252: the transport delivers, or not, whatever follows
                /\ inbox' = IF result.mail = "sent"
                            THEN [to |-> email_in, otp |-> otp] ELSE inbox
                /\ IF request_advances(found, result)
                   THEN /\ generated_otp' = otp
                        /\ reset_email' = email_in
                        /\ reset_username' = found
                        /\ reset_stage' = 1
                        /\ event' = Ev("send_otp", <<email_in>>, "", result.mail)
                   ELSE /\ UNCHANGED resetVars
                        /\ event' = Ev("send_otp", <<email_in>>,
                                       MSG_SEND_ERROR \o result.text, result.mail)
           ELSE /\ UNCHANGED <<resetVars, inbox>>
                /\ event' = Ev("send_otp", <<email_in>>, MSG_EMAIL_UNKNOWN, "none")
    /\ UNCHANGED <<EMAIL_ENABLED, authVars, chatVars>>

\* Faulty variant of otp_matches: the codes are compared as numbers, so a
\* leading zero is accepted.
otp_matches_Numeric(otp_input, otp) ==
    \/ otp_input = otp
    \/ otp_input = "0" \o otp

\* app.py:269: otp_input == st.session_state.generated_otp
otp_matches(otp_input, otp) == otp_input = otp

\* app.py:265-273: "Verify OTP" at stage 1.
VerifyOTP(otp_input) ==
    /\ ~authenticated
    /\ ResetAvailable
    /\ reset_stage = 1
    /\ IF otp_matches(otp_input, generated_otp)
       THEN /\ reset_stage' = 2
            /\ event' = Ev("verify_otp", <<otp_input>>, "", "none")
       ELSE /\ reset_stage' = reset_stage
            /\ event' = Ev("verify_otp", <<otp_input>>, MSG_INVALID_OTP, "none")
    /\ UNCHANGED <<EMAIL_ENABLED, authVars, generated_otp, reset_email,
                   reset_username, chatVars, inbox>>

\* app.py:274-276: "Back" at stage 1.
Back ==
    /\ ~authenticated
    /\ ResetAvailable
    /\ reset_stage = 1
    /\ reset_stage' = 0
    /\ event' = Ev("back", << >>, "", "none")
    /\ UNCHANGED <<EMAIL_ENABLED, authVars, generated_otp, reset_email,
                   reset_username, chatVars, inbox>>

\* Faulty variant of set_password: every account gets the new password.
set_password_Everyone(us, name, new_pw) ==
    [u \in DOMAIN us |-> IF us[u].isdict THEN [us[u] EXCEPT !.password = new_pw] ELSE us[u]]

\* app.py:283-284: users[reset_username]["password"] = new_pw_reset
set_password(us, name, new_pw) == [us EXCEPT ![name].password = new_pw]

\* app.py:279-289: "Update Password" at stage 2.
UpdatePassword(new_pw_reset) ==
    /\ ~authenticated
    /\ ResetAvailable
    /\ reset_stage = 2
    /\ users' = set_password(users, reset_username, new_pw_reset)
    /\ reset_stage' = 0
    /\ event' = Ev("update_password", <<new_pw_reset>>, MSG_PW_UPDATED, "none")
    /\ UNCHANGED <<EMAIL_ENABLED, authenticated, username, generated_otp,
                   reset_email, reset_username, chatVars, inbox>>

(***************************************************************************)
(* The dashboard (app.py:292 on): shown while authenticated.               *)
(***************************************************************************)
\* app.py:326-329
Logout ==
    /\ authenticated
    /\ authenticated' = FALSE
    /\ username' = None
    /\ event' = Ev("logout", << >>, "", "none")
    /\ UNCHANGED <<EMAIL_ENABLED, users, resetVars, chatVars, inbox>>

PREFIX_LEN == 20

Min(a, b) == IF a < b THEN a ELSE b

\* Python's s[:n]
Prefix(s, n) == SubSeq(s, 1, Min(Len(s), n))

\* app.py:440: f"Chat: {prompt[:20]}..."
derive_name(prompt) == "Chat: " \o Prefix(prompt, PREFIX_LEN) \o "..."

\* The names a stored chat can have.
SessionNames == {derive_name(p) : p \in Prompts}

\* app.py:55-58
save_history(hist, session_name, msgs) == Put(hist, session_name, msgs)

\* Faulty variant of delete_chat: the whole file is emptied.
delete_chat_Clear(hist, session_name) == << >>

\* app.py:60-64
delete_chat(hist, session_name) ==
    IF session_name \in DOMAIN hist THEN Del(hist, session_name) ELSE hist

\* app.py:122-126: the provider's text, or the fixed text when it raises.
get_gemini_response(ok, text) == IF ok THEN text ELSE FALLBACK

Message(role, content) == [role |-> role, content |-> content]

\* app.py:407-410
NewChat ==
    /\ authenticated
    /\ messages' = << >>
    /\ current_session_name' = NEW_CHAT
    /\ event' = Ev("new_chat", << >>, "", "none")
    /\ UNCHANGED <<EMAIL_ENABLED, authVars, resetVars, history, inbox>>

\* app.py:412-419: the button of a saved chat.
LoadChat(chat_name) ==
    /\ authenticated
    /\ chat_name \in DOMAIN history
    /\ messages' = history[chat_name]
    /\ current_session_name' = chat_name
    /\ event' = Ev("load_chat", <<chat_name>>, "", "none")
    /\ UNCHANGED <<EMAIL_ENABLED, authVars, resetVars, history, inbox>>

\* app.py:420-423 with delete_chat (60-64).  The name may be absent from
\* the file: the page of another browser tab still shows the button of a
\* chat that was deleted since it was rendered.
DeleteChat(chat_name) ==
    /\ authenticated
    /\ history' = delete_chat(history, chat_name)
    /\ event' = Ev("delete_chat", <<chat_name>>, "", "none")
    /\ UNCHANGED <<EMAIL_ENABLED, authVars, resetVars, messages,
                   current_session_name, inbox>>

\* Faulty variant of ask_messages: the reply is not appended.
ask_messages_UserOnly(msgs, prompt, response) == Append(msgs, Message("user", prompt))

\* app.py:430 and 438: the two appends of one turn.
ask_messages(msgs, prompt, response) ==
    Append(Append(msgs, Message("user", prompt)), Message("assistant", response))

\* app.py:429-441: a submitted chat_input.  ok and text are the provider's
\* outcome.
Ask(prompt, ok, text) ==
    /\ authenticated
    /\ Len(messages) < 2 * MaxTurns
    /\ LET response == get_gemini_response(ok, text)
           msgs     == ask_messages(messages, prompt, response)
           name     == IF current_session_name = NEW_CHAT
                       THEN derive_name(prompt) ELSE current_session_name
       IN  /\ messages' = msgs
           /\ current_session_name' = name
           /\ history' = save_history(history, name, msgs)
           /\ event' = Ev("ask", <<prompt>>, response, "none")
    /\ UNCHANGED <<EMAIL_ENABLED, authVars, resetVars, inbox>>

(***************************************************************************)
(* Specifications.                                                         *)
(***************************************************************************)
\* app.py:239-289: the buttons of the three reset stages.
ResetAction ==
    \/ \E e \in Emails, d \in OtpDraws, o \in {"ok"} \cup SmtpErrors : SendOTPCode(e, d, o)
    \/ \E c \in OtpInputs : VerifyOTP(c)
    \/ Back
    \/ \E p \in Passwords : UpdatePassword(p)

LoginPageNext ==
    \/ \E u \in Usernames, p \in Passwords : login_user(u, p)
    \/ \E u \in Usernames, p \in Passwords, e \in Emails : CreateAccount(u, p, e)
    \/ tab_forgot_disabled
    \/ ResetAction

DashboardNext ==
    \/ NewChat
    \/ \E n \in SessionNames : LoadChat(n)
    \/ \E n \in SessionNames : DeleteChat(n)
    \/ \E p \in Prompts, ok \in BOOLEAN, t \in Replies : Ask(p, ok, t)

Next == LoginPageNext \/ Logout \/ DashboardNext

Spec == Init /\ [][Next]_vars

(***************************************************************************)
(* The login-page handlers leave messages, current_session_name and        *)
(* history alone, and the dashboard handlers leave users and the reset     *)
(* fields alone; the two pages meet only in authenticated.  Spec is their  *)
(* full product.  SpecAuth explores the login page (and Logout) over the   *)
(* whole input domains; SpecChat explores the dashboard over the whole     *)
(* chat domains, entered through the sign-up and login of one account.     *)
(***************************************************************************)
AuthNext == LoginPageNext \/ Logout

SpecAuth == Init /\ [][AuthNext]_vars

ChatUsernames == {"ann"}
ChatPasswords == {"pw1"}
ChatEmails    == {"a@x"}

ChatNext ==
    \/ \E u \in ChatUsernames, p \in ChatPasswords : login_user(u, p)
    \/ \E u \in ChatUsernames, p \in ChatPasswords, e \in ChatEmails : CreateAccount(u, p, e)
    \/ Logout
    \/ DashboardNext

SpecChat == Init /\ [][ChatNext]_vars

(***************************************************************************)
(* Vocabulary of the properties.                                           *)
(***************************************************************************)
\* The password users.json holds for an account, in either record shape.
PasswordOnFile(us, u) == IF us[u].isdict THEN us[u].password ELSE us[u].value

\* The accounts that have an email.
WithEmail(us) == {u \in DOMAIN us : us[u].isdict}

\* The run called signup_user (all three fields were filled in).
SignupCalled(ev) == ev.op = "signup" /\ ev.out # MSG_FILL_FIELDS

\* What a failing identity or reset operation reports.
FailureTexts ==
    { MSG_USERNAME_TAKEN, MSG_EMAIL_TAKEN, MSG_INVALID_PW, MSG_USER_NOT_FOUND,
      MSG_EMAIL_UNKNOWN, MSG_INVALID_OTP } \cup { MSG_SEND_ERROR \o x : x \in SmtpErrors }

\* No two accounts that have an email have the same one.
UniqueEmails(us) ==
    \A u, v \in WithEmail(us) : u # v => us[u].email # us[v].email

\* The signup's email is the email of an account under another username.
EmailOfAnother(us, u, e) == \E v \in WithEmail(us) : v # u /\ us[v].email = e

\* The handlers of the reset flow, and a session the flow never touched.
ResetOps == {"send_otp", "verify_otp", "back", "update_password"}

ResetUntouched ==
    /\ reset_stage = 0
    /\ generated_otp = None /\ reset_email = None /\ reset_username = None
    /\ event.op \notin ResetOps
    /\ event.mail = "none"
    /\ inbox = NoMail

(***************************************************************************)
(* C1.  After Signup(u, p, e) succeeds the store holds account u with      *)
(* password p and email e, and a Login(u, p) that follows it authenticates *)
(* (authenticated becomes true, the session username becomes u); more      *)
(* generally every Login with the stored password authenticates.  A        *)
(* Login(u, q) for an existing account u with q different from the stored  *)
(* password reports "Invalid password", never "User not found", and leaves *)
(* the session unauthenticated.                                            *)
(***************************************************************************)
C1_SignupLogin ==
    [][ /\ (event'.op = "signup" /\ event'.out = MSG_CREATED)
            => /\ event'.args[1] \in DOMAIN users'
               /\ users'[event'.args[1]] = Account(event'.args[2], event'.args[3])
               /\ ~authenticated'
        /\ (/\ event.op = "signup" /\ event.out = MSG_CREATED
            /\ event'.op = "login"
            /\ event'.args = <<event.args[1], event.args[2]>>)
            => /\ authenticated'
               /\ username' = event.args[1]
               /\ event'.out = MSG_LOGGED_IN
        /\ (/\ event'.op = "login"
            /\ event'.args[1] \in DOMAIN users
            /\ PasswordOnFile(users, event'.args[1]) = event'.args[2])
            => /\ authenticated'
               /\ username' = event'.args[1]
        /\ (/\ event'.op = "login"
            /\ event'.args[1] \in DOMAIN users
            /\ PasswordOnFile(users, event'.args[1]) # event'.args[2])
            => /\ event'.out = MSG_INVALID_PW
               /\ ~authenticated'
               /\ username' = username
      ]_vars

\* A login that authenticated against an account made by Signup.
C1_Witness ==
    /\ event.op = "login"
    /\ event.out = MSG_LOGGED_IN
    /\ authenticated
    /\ username \in DOMAIN users
    /\ users[username].isdict
    /\ users[username].password = event.args[2]

(***************************************************************************)
(* C2.  Every failing identity or reset operation leaves users.json as it  *)
(* was: a Signup rejected as username taken or email taken, a failed       *)
(* Login, a RequestOTP that fails with "Email not found." or with a        *)
(* delivery error, and a VerifyOTP that fails with "Invalid OTP.".         *)
(***************************************************************************)
C2_FailuresKeepStore ==
    [][ (event'.out \in FailureTexts \/ event'.mail = "failed") => users' = users ]_vars

\* A Signup rejected for its email while the store holds an account.
C2_Witness ==
    /\ event.op = "signup"
    /\ event.out = MSG_EMAIL_TAKEN
    /\ users # << >>

(***************************************************************************)
(* C3.  No two distinct usernames of the store have the same email (among  *)
(* the accounts that have one), in every reachable state.  As stated, the  *)
(* claim adds that a Signup whose email equals the email of an existing    *)
(* account under a different username is rejected as email taken.          *)
(***************************************************************************)
\* C3 as stated: uniqueness, and every such Signup reports email taken.
C3_AsStated ==
    [][ /\ UniqueEmails(users')
        /\ (SignupCalled(event') /\ EmailOfAnother(users, event'.args[1], event'.args[3]))
            => event'.out = MSG_EMAIL_TAKEN
      ]_vars

\* C3 as amended: uniqueness holds in every reachable state; such a Signup
\* is always rejected and leaves the store unchanged, as email taken when
\* its username is not in the store and as username taken when it is
\* (signup_user tests the username first).
C3_UniqueEmails ==
    [][ /\ UniqueEmails(users) /\ UniqueEmails(users')
        /\ (SignupCalled(event') /\ EmailOfAnother(users, event'.args[1], event'.args[3]))
            => /\ users' = users
               /\ event'.out = IF event'.args[1] \in DOMAIN users
                               THEN MSG_USERNAME_TAKEN ELSE MSG_EMAIL_TAKEN
      ]_vars

\* A Signup under a new username rejected for using the email of an
\* account of the store.
C3_Witness ==
    /\ WithEmail(users) # {}
    /\ event.op = "signup"
    /\ event.out = MSG_EMAIL_TAKEN
    /\ event.args[1] \notin DOMAIN users

(***************************************************************************)
(* C4.  At stage 0 a RequestOTP(email) moves the flow to stage 1 only when *)
(* some account's email equals the input and the mail transport reported   *)
(* success.  With an unregistered email it reports "Email not found.", on  *)
(* a delivery failure it reports the delivery error, and in both cases the *)
(* stage stays 0.                                                          *)
(***************************************************************************)
C4_RequestOTP ==
    [][ /\ (reset_stage = 0 /\ reset_stage' # 0)
            => /\ reset_stage' = 1
               /\ event'.op = "send_otp"
               /\ \E u \in WithEmail(users) : users[u].email = event'.args[1]
               /\ event'.mail = "sent"
               /\ inbox'.to = event'.args[1]
        /\ (/\ event'.op = "send_otp"
            /\ ~ \E u \in WithEmail(users) : users[u].email = event'.args[1])
            => /\ event'.out = MSG_EMAIL_UNKNOWN
               /\ event'.mail = "none"
               /\ reset_stage = 0 /\ reset_stage' = 0
        /\ (event'.op = "send_otp" /\ event'.mail = "failed")
            => /\ event'.out \in { MSG_SEND_ERROR \o x : x \in SmtpErrors }
               /\ reset_stage = 0 /\ reset_stage' = 0
               /\ inbox' = inbox
      ]_vars

\* A request for a registered email whose delivery failed.
C4_Witness ==
    /\ event.op = "send_otp"
    /\ event.mail = "failed"
    /\ reset_stage = 0
    /\ \E u \in WithEmail(users) : users[u].email = event.args[1]

(***************************************************************************)
(* C5.  At stage 1 a VerifyOTP(code) moves the flow to stage 2 if and only *)
(* if code equals, as a string, the code of the most recent successful     *)
(* RequestOTP (the last one the transport delivered); any other code       *)
(* reports "Invalid OTP." and the stage stays 1.  Stage 2 is entered only  *)
(* by such a matching VerifyOTP.                                           *)
(***************************************************************************)
C5_VerifyOTP ==
    [][ /\ (event'.op = "verify_otp")
            => /\ reset_stage = 1
               /\ generated_otp' = generated_otp
               /\ IF event'.args[1] = inbox.otp
                  THEN reset_stage' = 2
                  ELSE reset_stage' = 1 /\ event'.out = MSG_INVALID_OTP
        /\ (reset_stage # 2 /\ reset_stage' = 2)
            => /\ reset_stage = 1
               /\ event'.op = "verify_otp"
               /\ event'.args[1] = inbox.otp
               /\ inbox.to = reset_email
      ]_vars

\* Stage 2 reached after the delivered code was submitted.
C5_Witness ==
    /\ reset_stage = 2
    /\ event.op = "verify_otp"
    /\ event.args[1] = inbox.otp

(***************************************************************************)
(* C6.  SetNewPassword(new) at stage 2 sets the password of exactly the    *)
(* account named by the ticket's username, which is the account whose      *)
(* email was given at stage 0, and leaves every other account's password,  *)
(* every account's email and the set of usernames unchanged.               *)
(***************************************************************************)
C6_SetNewPassword ==
    [][ (event'.op = "update_password")
            => /\ reset_stage = 2
               /\ reset_username \in WithEmail(users)
               /\ users[reset_username].email = reset_email
               /\ DOMAIN users' = DOMAIN users
               /\ users'[reset_username] = Account(event'.args[1], reset_email)
               /\ \A u \in DOMAIN users \ {reset_username} : users'[u] = users[u]
      ]_vars

\* A reset completed while the store holds a second account with another
\* password.
C6_Witness ==
    /\ event.op = "update_password"
    /\ \E u \in DOMAIN users :
          u # reset_username /\ PasswordOnFile(users, u) # event.args[1]
    /\ PasswordOnFile(users, reset_username) = event.args[1]

(***************************************************************************)
(* C7.  The ticket is discarded when the reset flow is cancelled or        *)
(* completed: after Cancel ("Back") at stage 1 and after SetNewPassword at *)
(* stage 2 the stage is 0 and the ticket's email, username and code no     *)
(* longer hold the values of the finished attempt.                         *)
(***************************************************************************)
C7_TicketDiscarded ==
    [][ (event'.op \in {"back", "update_password"})
            => /\ reset_stage' = 0
               /\ generated_otp' # generated_otp
               /\ reset_email' # reset_email
               /\ reset_username' # reset_username
      ]_vars

(***************************************************************************)
(* C8.  When mail delivery is not configured (EMAIL_ENABLED is false) the  *)
(* reset flow is unavailable: no reset action is enabled or taken, the     *)
(* stage is 0 in every reachable state, no delivery is attempted, and no   *)
(* existing account's password or email ever changes.                      *)
(***************************************************************************)
C8_ResetDisabled ==
    [][ ~EMAIL_ENABLED
            => /\ ResetUntouched /\ ResetUntouched'
               /\ ~ ENABLED ResetAction
               /\ \A u \in DOMAIN users : u \in DOMAIN users' /\ users'[u] = users[u]
      ]_vars

\* Without mail credentials: the tab reported itself disabled while the
\* store holds an account with an email.
C8_Witness ==
    /\ ~EMAIL_ENABLED
    /\ event.op = "forgot"
    /\ event.out = MSG_DISABLED
    /\ WithEmail(users) # {}

(***************************************************************************)
(* C9.  Every Ask(prompt), whether the provider succeeds or fails, extends *)
(* messages by exactly two entries in order, a user message with the       *)
(* prompt and then an assistant message with the reply or the fixed        *)
(* fallback text; afterwards the history entry under current_session_name  *)
(* equals messages; if the name was "New Chat" before, it is afterwards    *)
(* "Chat: " + the first 20 characters of the prompt + "...", and otherwise *)
(* it is unchanged.  One Ask on a brand-new chat leaves exactly 2 entries  *)
(* stored under the derived name.                                          *)
(***************************************************************************)
C9_Ask ==
    [][ (event'.op = "ask")
            => LET prompt == event'.args[1]
                   reply  == event'.out
                   k      == IF Len(prompt) < 20 THEN Len(prompt) ELSE 20
               IN  /\ reply \in Replies \cup {FALLBACK}
                   /\ Len(messages') = Len(messages) + 2
                   /\ SubSeq(messages', 1, Len(messages)) = messages
                   /\ messages'[Len(messages) + 1] = [role |-> "user", content |-> prompt]
                   /\ messages'[Len(messages) + 2] = [role |-> "assistant", content |-> reply]
                   /\ current_session_name' \in DOMAIN history'
                   /\ history'[current_session_name'] = messages'
                   /\ current_session_name' =
                        IF current_session_name = "New Chat"
                        THEN "Chat: " \o SubSeq(prompt, 1, k) \o "..."
                        ELSE current_session_name
                   /\ (current_session_name = "New Chat" /\ messages = << >>)
                        => Len(history'[current_session_name']) = 2
      ]_vars

\* A second turn of a stored chat, answered with the fallback text.
C9_Witness ==
    /\ event.op = "ask"
    /\ event.out = FALLBACK
    /\ Len(messages) = 4
    /\ current_session_name \in DOMAIN history
    /\ history[current_session_name] = messages

(***************************************************************************)
(* C10.  DeleteChat(name) removes exactly the entry for name from the      *)
(* history store and leaves every other session's messages unchanged; if   *)
(* name is absent the store is unchanged and nothing is reported; in both  *)
(* cases current_session_name and messages are unchanged.                  *)
(***************************************************************************)
C10_DeleteChat ==
    [][ (event'.op = "delete_chat")
            => LET name == event'.args[1]
               IN  /\ DOMAIN history' = DOMAIN history \ {name}
                   /\ \A n \in DOMAIN history' : history'[n] = history[n]
                   /\ (name \notin DOMAIN history) => history' = history
                   /\ event'.out = ""
                   /\ current_session_name' = current_session_name
                   /\ messages' = messages
      ]_vars

\* The active chat was deleted while another chat stays stored.
C10_Witness ==
    /\ event.op = "delete_chat"
    /\ current_session_name = event.args[1]
    /\ event.args[1] \notin DOMAIN history
    /\ history # << >>
    /\ messages # << >>

(***************************************************************************)
(* C11.  Stored transcripts are append-only per session name: every write  *)
(* to the history store under a name that is already stored (no DeleteChat *)
(* of that name in between) stores a message list that has the list stored *)
(* before as a prefix.  In particular an Ask in a new chat never replaces  *)
(* the transcript of a stored session, even when its first prompt has the  *)
(* same first 20 characters as that session's first prompt.                *)
(***************************************************************************)
C11_AppendOnly ==
    [][ \A n \in DOMAIN history :
            n \in DOMAIN history'
                => /\ Len(history[n]) <= Len(history'[n])
                   /\ SubSeq(history'[n], 1, Len(history[n])) = history[n]
      ]_vars
====
